---- MODULE Spec2Model ----
(***************************************************************************)
(* Model of src/streamlit_app.py: the SQL generator's request handler      *)
(* generate_response (cache lookup, guarded generation, validation check,  *)
(* display, cache write-back, top-level except) and its caller main        *)
(* (strategy radio, threshold slider, backend selection, form submit).     *)
(*                                                                         *)
(* Encoding of Python values:                                              *)
(*   str (SQL text)   a sequence of code points                            *)
(*   bytes            a sequence of integers 0..255                        *)
(*   Optional[x]      <<>> for None, <<x>> for a value                     *)
(*   dict (cache)     a function whose DOMAIN is the set of stored keys    *)
(*   float threshold  an integer number of hundredths (slider step 0.01)   *)
(***************************************************************************)
EXTENDS Integers, Sequences, FiniteSets, TLC

\* ---------------------------------------------------------------- bounds
MaxQuery == 2
MaxLen == 1
EmbedGap == 10

\* ------------------------------------------------------ program constants
SliderMin == 0
SliderMax == 100
SliderDefault == 10

EXACT == "Exact Match Cache"
SEMANTIC == "Semantic Cache"
Strategies == {EXACT, SEMANTIC}

\* ------------------------------------------------------------ value sets
Queries == 1..MaxQuery

\* Code points the generated SQL is drawn from: one two-byte character.
Chars == {233}

Strs == UNION {[1..n -> Chars] : n \in 0..MaxLen}

SliderValues == {SliderMin, SliderDefault, SliderMax}

None == <<>>
Some(x) == <<x>>

\* ------------------------------------------------------- pure operators

\* str.encode("utf-8") as the redis client applies it to a stored value.
RECURSIVE Encode(_)
Encode(s) ==
    IF s = <<>> THEN <<>>
    ELSE LET cp == Head(s)
         IN  (IF cp < 128 THEN <<cp>>
              ELSE <<192 + (cp \div 64), 128 + (cp % 64)>>) \o Encode(Tail(s))

\* bytes.decode("utf-8")
RECURSIVE Decode(_)
Decode(b) ==
    IF b = <<>> THEN <<>>
    ELSE IF Head(b) < 128 THEN <<Head(b)>> \o Decode(Tail(b))
    ELSE <<(Head(b) - 192) * 64 + (b[2] - 128)>> \o Decode(Tail(Tail(b)))

\* Python truthiness of a bytes / list / Optional value.
Truthy(v) == v # <<>>

\* cache.get(input_text) on the Redis client: the stored bytes or None.
ExactGet(c, key) == IF key \in DOMAIN c THEN c[key] ELSE None

\* Lines 31-33: the exact-match lookup and its wrapping into a one-element list.
ExactLookup(c, key) ==
    LET raw == ExactGet(c, key)
    IN  IF Truthy(raw) THEN <<[response |-> Decode(raw)]>> ELSE <<>>

\* Embedding distance between two prompts, in hundredths.
Dist(p, q) == (IF p < q THEN q - p ELSE p - q) * EmbedGap

Closer(p1, p2, q) ==
    \/ Dist(p1, q) < Dist(p2, q)
    \/ Dist(p1, q) = Dist(p2, q) /\ p1 < p2

RECURSIVE Ordered(_, _)
Ordered(S, q) ==
    IF S = {} THEN <<>>
    ELSE LET m == CHOOSE p \in S : \A r \in S \ {p} : Closer(p, r, q)
         IN  <<m>> \o Ordered(S \ {m}, q)

\* cache.check(prompt, distance_threshold): the entries within the threshold,
\* closest first.
SemanticCheck(c, prompt, threshold) ==
    LET ord == Ordered({p \in DOMAIN c : Dist(p, prompt) <= threshold}, prompt)
    IN  [i \in 1..Len(ord) |->
            [prompt |-> ord[i], response |-> c[ord[i]],
             vector_distance |-> Dist(ord[i], prompt)]]

\* Lines 24-33: cached_result as generate_response computes it.
CachedResult(a, exact, sem) ==
    IF a.cache_strategy = SEMANTIC
    THEN SemanticCheck(sem, a.input_text, a.distance_threshold[1])
    ELSE ExactLookup(exact, a.input_text)

\* Line 75: the entry whose response is displayed on a hit.
DisplayedEntryLast(cr) == cr[Len(cr)]
DisplayedEntry(cr) == cr[1]

\* Line 51: the failure branch of the validation check.
\* Truthiness of validated_response: None and the empty dict are falsy.
ObjTruthy(vr) == vr.kind \notin {"none", "empty"}

FailCheckNoFlag(error, validation_passed, validated_response) ==
    Truthy(error) \/ ~ObjTruthy(validated_response)
FailCheck(error, validation_passed, validated_response) ==
    Truthy(error) \/ ~validation_passed \/ ~ObjTruthy(validated_response)

\* Line 54: LLMResponse(**validated_response) raises when the required
\* generated_sql field is absent.
LLMResponseRaises(vr) == vr.kind # "sql"

\* f"{error}"
Format(error) == IF error = None THEN "None" ELSE error[1]

\* UI elements written by st.info / st.error.
Answer(sql) == [kind |-> "info", what |-> "answer", sql |-> sql, detail |-> ""]
Elapsed == [kind |-> "info", what |-> "elapsed", sql |-> <<>>, detail |-> ""]
GenerationErrorFixed(error) ==
    [kind |-> "error", what |-> "Unable to produce an answer due to: ",
     sql |-> <<>>, detail |-> "validation failed"]
GenerationError(error) ==
    [kind |-> "error", what |-> "Unable to produce an answer due to: ",
     sql |-> <<>>, detail |-> Format(error)]
UnexpectedErrorNoDetail(e) ==
    [kind |-> "error", what |-> "Error: ", sql |-> <<>>, detail |-> ""]
UnexpectedError(e) ==
    [kind |-> "error", what |-> "Error: ", sql |-> <<>>, detail |-> e.msg]

\* Exceptions the collaborators raise; all derive from Exception.
ExceptionClasses ==
    {"ConnectionError", "AttributeError", "APIConnectionError", "ValidationError"}
Raised(class, msg, site) == Some([class |-> class, msg |-> msg, site |-> site])

\* Line 78: except Exception.
CaughtConnectionOnly(e) == e.class = "ConnectionError"
Caught(e) == e.class \in ExceptionClasses

\* Lines 60-68: the store operation issued for the active strategy.
StoreOpAlwaysSet(strategy, text, sql) ==
    [op |-> "set", key |-> text, value |-> sql, metadata |-> {}]
StoreOp(strategy, text, sql) ==
    IF strategy = SEMANTIC
    THEN [op |-> "store", key |-> text, value |-> sql, metadata |-> {"generated_at"}]
    ELSE [op |-> "set", key |-> text, value |-> sql, metadata |-> {}]

\* The backend's state after a successful write of value v under key k.
Put(c, k, v) == [x \in DOMAIN c \cup {k} |-> IF x = k THEN v ELSE c[x]]

\* Lines 87-96: distance_threshold as main computes it.
DistanceThresholdAlwaysSlider(strategy, sliderValue) == Some(sliderValue)
DistanceThreshold(strategy, sliderValue) ==
    IF strategy = SEMANTIC THEN Some(sliderValue) ELSE None

\* Lines 99-103: the backend main hands to generate_response.
CacheFor(strategy) == IF strategy = SEMANTIC THEN "semantic" ELSE "exact"

\* The 5-tuples the guard can return (raw output and reask info are unused):
\* validated_response is None ("none"), an empty dict ("empty"), a dict
\* without generated_sql ("other") or a dict carrying generated_sql ("sql").
ValidatedResponses ==
    {[kind |-> k, sql |-> <<>>] : k \in {"none", "empty", "other"}}
    \cup {[kind |-> "sql", sql |-> s] : s \in Strs}

Errors == {None, Some("bad sql")}

GuardResults ==
    [validated_response : ValidatedResponses,
     validation_passed : BOOLEAN,
     error : Errors]

\* ---------------------------------------------------------------- state
VARIABLES
    radio,          \* the strategy radio's value
    slider,         \* the threshold slider's value (hundredths)
    exactCache,     \* Redis key/value store: query -> bytes
    semCache,       \* semantic cache: prompt -> response
    pc,             \* position of the handler
    args,           \* arguments of the running generate_response call
    cached_result,  \* local of generate_response
    guardResult,    \* Optional: the tuple the guard returned
    exc,            \* Optional: the exception in flight or handled
    shown,          \* UI elements written during the call, in order
    genCalls,       \* guard invocations during the call
    storeOps,       \* cache.set / cache.store invocations during the call
    before,         \* both backends as they were when the call started
    prev            \* Optional: the preceding call, when it was an exact-match
                    \* generate-and-store success

vars == <<radio, slider, exactCache, semCache, pc, args, cached_result,
          guardResult, exc, shown, genCalls, storeOps, before, prev>>

widgets == <<radio, slider>>
caches == <<exactCache, semCache>>
locals == <<cached_result, guardResult, exc, shown, genCalls, storeOps>>

EmptyCache == [k \in {} |-> <<>>]
NoArgs == [input_text |-> 0, cache |-> "exact", distance_threshold |-> None,
           cache_strategy |-> EXACT]

Init ==
    /\ radio = EXACT
    /\ slider = SliderDefault
    /\ exactCache = EmptyCache
    /\ semCache = EmptyCache
    /\ pc = "ready"
    /\ args = NoArgs
    /\ cached_result = <<>>
    /\ guardResult = None
    /\ exc = None
    /\ shown = <<>>
    /\ genCalls = 0
    /\ storeOps = <<>>
    /\ before = [exact |-> EmptyCache, sem |-> EmptyCache]
    /\ prev = None

\* -------------------------------------------------------------- main
\* Lines 83-85: the user picks a strategy; the slider is rendered afresh.
SelectStrategy(s) ==
    /\ pc = "ready"
    /\ s # radio
    /\ radio' = s
    /\ slider' = SliderDefault
    /\ prev' = None
    /\ UNCHANGED <<caches, pc, args, locals, before>>

\* Lines 88-94: the user moves the slider, shown only for the semantic strategy.
MoveSlider(t) ==
    /\ pc = "ready"
    /\ radio = SEMANTIC
    /\ t # slider
    /\ slider' = t
    /\ UNCHANGED <<radio, caches, pc, args, locals, before, prev>>

\* Lines 98-111: the form is submitted and generate_response is entered.
Submit(text) ==
    /\ pc = "ready"
    /\ args' = [input_text |-> text,
                cache |-> CacheFor(radio),
                distance_threshold |-> DistanceThreshold(radio, slider),
                cache_strategy |-> radio]
    /\ before' = [exact |-> exactCache, sem |-> semCache]
    /\ pc' = "lookup"
    /\ UNCHANGED <<widgets, caches, locals, prev>>

\* ------------------------------------------------- generate_response
BackendFits(a) ==
    /\ a.cache = CacheFor(a.cache_strategy)
    /\ a.cache_strategy = SEMANTIC => a.distance_threshold # None

\* Lines 24-36 and 70-76: the lookup returns; a hit is displayed.
LookupReturns ==
    /\ pc = "lookup"
    /\ BackendFits(args)
    /\ LET cr == CachedResult(args, exactCache, semCache)
       IN  /\ cached_result' = cr
           /\ IF Truthy(cr)
              THEN /\ shown' = <<Answer(DisplayedEntry(cr).response), Elapsed>>
                   /\ pc' = "done"
              ELSE /\ shown' = shown
                   /\ pc' = "guard"
    /\ UNCHANGED <<widgets, caches, args, guardResult, exc, genCalls, storeOps,
                   before, prev>>

\* Lines 26-31: the lookup raises.
LookupRaises ==
    /\ pc = "lookup"
    /\ exc' = IF BackendFits(args)
              THEN Raised("ConnectionError", "cache unavailable", "lookup")
              ELSE Raised("AttributeError", "no such method", "lookup")
    /\ pc' = "except"
    /\ UNCHANGED <<widgets, caches, args, cached_result, guardResult, shown,
                   genCalls, storeOps, before, prev>>

\* Lines 37-57: the guard returns its tuple; the check, the construction of
\* LLMResponse and the display follow.
GuardReturns(r) ==
    /\ pc = "guard"
    /\ genCalls' = genCalls + 1
    /\ guardResult' = Some(r)
    /\ IF FailCheck(r.error, r.validation_passed, r.validated_response)
       THEN /\ shown' = Append(shown, GenerationError(r.error))
            /\ exc' = exc
            /\ pc' = "done"
       ELSE IF LLMResponseRaises(r.validated_response)
       THEN /\ shown' = shown
            /\ exc' = Raised("ValidationError", "generated_sql: field required",
                             "construct")
            /\ pc' = "except"
       ELSE /\ shown' = shown \o <<Answer(r.validated_response.sql), Elapsed>>
            /\ exc' = exc
            /\ pc' = "store"
    /\ UNCHANGED <<widgets, caches, args, cached_result, storeOps, before, prev>>

\* Lines 43-49: the generation call raises a transport failure.
GuardRaises ==
    /\ pc = "guard"
    /\ genCalls' = genCalls + 1
    /\ exc' = Raised("APIConnectionError", "connection error", "generate")
    /\ pc' = "except"
    /\ UNCHANGED <<widgets, caches, args, cached_result, guardResult, shown,
                   storeOps, before, prev>>

\* Line 55: generated_sql of the running call.
GeneratedSql == guardResult[1].validated_response.sql

\* Lines 60-68: the write-back succeeds.
StoreReturns ==
    /\ pc = "store"
    /\ LET o == StoreOp(args.cache_strategy, args.input_text, GeneratedSql)
       IN  /\ storeOps' = Append(storeOps, o)
           /\ IF o.op = "store"
              THEN /\ semCache' = Put(semCache, o.key, o.value)
                   /\ exactCache' = exactCache
              ELSE /\ exactCache' = Put(exactCache, o.key, Encode(o.value))
                   /\ semCache' = semCache
    /\ pc' = "done"
    /\ UNCHANGED <<widgets, args, cached_result, guardResult, exc, shown,
                   genCalls, before, prev>>

\* Lines 60-68: the write-back raises.
StoreRaises ==
    /\ pc = "store"
    /\ storeOps' = Append(storeOps,
                          StoreOp(args.cache_strategy, args.input_text, GeneratedSql))
    /\ exc' = Raised("ConnectionError", "cache unavailable", "store")
    /\ pc' = "except"
    /\ UNCHANGED <<widgets, caches, args, cached_result, guardResult, shown,
                   genCalls, before, prev>>

\* Lines 78-79: the top-level handler.
Except ==
    /\ pc = "except"
    /\ IF Caught(exc[1])
       THEN /\ shown' = Append(shown, UnexpectedError(exc[1]))
            /\ pc' = "done"
       ELSE /\ shown' = shown
            /\ pc' = "crashed"
    /\ UNCHANGED <<widgets, caches, args, cached_result, guardResult, exc,
                   genCalls, storeOps, before, prev>>

AnswerShown == \E i \in 1..Len(shown) : shown[i].what = "answer"
ErrorShown == \E i \in 1..Len(shown) : shown[i].kind = "error"
Generated == genCalls > 0 /\ AnswerShown

\* Line 111 returns: the script run ends and the form waits for the next submit.
Return ==
    /\ pc = "done"
    /\ pc' = "ready"
    /\ prev' = IF args.cache_strategy = EXACT /\ Generated /\ ~ErrorShown
                  /\ args.input_text \notin DOMAIN before.exact
               THEN Some([input_text |-> args.input_text, answer |-> GeneratedSql])
               ELSE None
    /\ args' = NoArgs
    /\ cached_result' = <<>>
    /\ guardResult' = None
    /\ exc' = None
    /\ shown' = <<>>
    /\ genCalls' = 0
    /\ storeOps' = <<>>
    /\ before' = [exact |-> EmptyCache, sem |-> EmptyCache]
    /\ UNCHANGED <<widgets, caches>>

Step ==
    \/ LookupReturns
    \/ LookupRaises
    \/ \E r \in GuardResults : GuardReturns(r)
    \/ GuardRaises
    \/ StoreReturns
    \/ StoreRaises
    \/ Except
    \/ Return

Next ==
    \/ \E s \in Strategies : SelectStrategy(s)
    \/ \E t \in SliderValues : MoveSlider(t)
    \/ \E text \in Queries : Submit(text)
    \/ LookupReturns
    \/ LookupRaises
    \/ \E r \in GuardResults : GuardReturns(r)
    \/ GuardRaises
    \/ StoreReturns
    \/ StoreRaises
    \/ Except
    \/ Return

Spec == Init /\ [][Next]_vars

\* The texts submitted in the behaviours checked for progress.
LiveQueries == {1}

LiveNext ==
    \/ \E s \in Strategies : SelectStrategy(s)
    \/ \E t \in SliderValues : MoveSlider(t)
    \/ \E text \in LiveQueries : Submit(text)
    \/ Step

\* Every external call eventually returns or raises, and the handler's own
\* code runs to its end.
LiveSpec == Init /\ [][LiveNext]_vars /\ WF_vars(Step)

\* ------------------------------------------------------------ properties

\* The call's guard result, when the guard returned.
Result == guardResult[1]

\* The validation capability reported no error, pass = true and a non-empty
\* structured object carrying generated_sql.
Validated ==
    /\ guardResult # None
    /\ Result.error = None
    /\ Result.validation_passed
    /\ Result.validated_response.kind = "sql"

\* The validation capability reported an error, pass = false or an empty object.
Rejected ==
    /\ guardResult # None
    /\ \/ Result.error # None
       \/ ~Result.validation_passed
       \/ Result.validated_response.kind \in {"none", "empty"}

InCall == pc # "ready"
CachesUntouched == exactCache = before.exact /\ semCache = before.sem

\* The query of the running call was in the active backend when the call began.
PresentBefore ==
    IF args.cache_strategy = SEMANTIC
    THEN \E p \in DOMAIN before.sem :
            Dist(p, args.input_text) <= args.distance_threshold[1]
    ELSE args.input_text \in DOMAIN before.exact

LookupFailed == exc # None /\ exc[1].site = "lookup"

\* C1 (validation gate): when a call has finished, it issued a cache write
\* if and only if its generation attempt came back with no error, pass = true
\* and an object carrying generated_sql; a call issues at most one write, the
\* value written is that generated_sql, the backends change only through such a
\* write, and a hit writes nothing.
C1_ValidationGate ==
    /\ pc = "done" => ((storeOps # <<>>) <=> Validated)
    /\ storeOps # <<>> => Validated
    /\ Len(storeOps) <= 1
    /\ \A i \in 1..Len(storeOps) :
          storeOps[i].value = Result.validated_response.sql
    /\ (InCall /\ ~CachesUntouched) => storeOps # <<>>
    /\ (InCall /\ Truthy(cached_result)) => storeOps = <<>>

C1_Witness ==
    /\ pc = "done"
    /\ Validated
    /\ storeOps # <<>>
    /\ exactCache # before.exact

\* C2 (cache-hit short-circuit): a call whose query was present in the active
\* backend when it began never invokes the generation capability.
C2_HitShortCircuit ==
    (InCall /\ PresentBefore) => genCalls = 0

\* C3 (cache-miss path): a finished call whose query was absent from the
\* active backend, and whose lookup returned, invoked generation exactly once;
\* when the attempt validated it issued exactly one store, with the active
\* strategy's operation and the query as key; no call generates twice.
C3_MissPath ==
    /\ genCalls <= 1
    /\ (pc = "done" /\ ~PresentBefore /\ ~LookupFailed) =>
          /\ genCalls = 1
          /\ Validated =>
                storeOps =
                  << [op |-> IF args.cache_strategy = SEMANTIC THEN "store" ELSE "set",
                      key |-> args.input_text,
                      value |-> Result.validated_response.sql,
                      metadata |-> IF args.cache_strategy = SEMANTIC
                                   THEN {"generated_at"} ELSE {}] >>
          /\ Validated /\ exc = None =>
                IF args.cache_strategy = SEMANTIC
                THEN /\ exactCache = before.exact
                     /\ args.input_text \in DOMAIN semCache
                     /\ semCache[args.input_text] = Result.validated_response.sql
                ELSE /\ semCache = before.sem
                     /\ args.input_text \in DOMAIN exactCache

C3_Witness ==
    /\ pc = "done"
    /\ args.cache_strategy = SEMANTIC
    /\ ~PresentBefore
    /\ before.sem # EmptyCache
    /\ Validated
    /\ exc = None

\* C4 (store-then-hit round trip, exact match): when the preceding call
\* generated and stored s for a query that had no entry, the next call with the
\* same text, if nothing raised, shows s from the cache without generating.
C4_RoundTrip ==
    (/\ pc = "done"
     /\ prev # None
     /\ args.cache_strategy = EXACT
     /\ args.input_text = prev[1].input_text
     /\ exc = None)
    => /\ genCalls = 0
       /\ shown = <<Answer(prev[1].answer), Elapsed>>

\* C5 (generation error): a call whose guard result was rejected ends with
\* the single message "Unable to produce an answer due to: <error>", the
\* reported error as its detail, no answer, no write, and one generation call.
C5_GenerationError ==
    (pc = "done" /\ Rejected) =>
        /\ Len(shown) = 1
        /\ shown[1].kind = "error"
        /\ shown[1].what = "Unable to produce an answer due to: "
        /\ shown[1].detail = Format(Result.error)
        /\ ~AnswerShown
        /\ storeOps = <<>>
        /\ CachesUntouched
        /\ genCalls = 1

C5_Witness ==
    /\ pc = "done"
    /\ Rejected
    /\ ~Result.validation_passed
    /\ Result.error # None
    /\ before.exact # EmptyCache

\* C6 (transport failure): when the generation call raised, the call writes
\* nothing, both backends stay as they were when it began, and it ends in the
\* single message "Error: <message>".
C6_TransportFailure ==
    (exc # None /\ exc[1].site = "generate") =>
        /\ pc \in {"except", "done"}
        /\ storeOps = <<>>
        /\ CachesUntouched
        /\ pc = "done" =>
              shown = << [kind |-> "error", what |-> "Error: ", sql |-> <<>>,
                          detail |-> exc[1].msg] >>

C6_Witness ==
    /\ pc = "done"
    /\ exc # None
    /\ exc[1].site = "generate"
    /\ before.exact # EmptyCache

\* C7 (exclusive outcome): a finished call shows either an answer with its
\* elapsed time or an error message, never both.
C7_ExclusiveOutcome ==
    pc = "done" =>
        \/ shown = <<shown[1], Elapsed>> /\ shown[1].what = "answer"
        \/ Len(shown) = 1 /\ shown[1].kind = "error"

\* C8 (ready after any failure): no exception escapes the handler, every
\* submitted query ends with something shown, and the form is then ready again.
C8_ReadyAfterFailure ==
    /\ [](pc # "crashed")
    /\ (pc = "lookup") ~> (pc = "done" /\ shown # <<>>)
    /\ (pc = "done") ~> (pc = "ready")

C8_Witness ==
    /\ pc = "done"
    /\ exc # None
    /\ exc[1].site = "construct"
    /\ ErrorShown

\* C9 (hit tie-break): on a hit the displayed answer is the response of the
\* first returned entry and nothing else is displayed; an exact-match hit is a
\* one-element result holding the value stored under the literal query.
C9_HitTieBreak ==
    (pc = "done" /\ Truthy(cached_result)) =>
        /\ shown = <<Answer(cached_result[1].response), Elapsed>>
        /\ genCalls = 0
        /\ args.cache_strategy = EXACT =>
              /\ Len(cached_result) = 1
              /\ Encode(cached_result[1].response) = before.exact[args.input_text]

C9_Witness ==
    /\ pc = "done"
    /\ Len(cached_result) >= 2
    /\ cached_result[1].response # cached_result[2].response

\* C10 (strategy consistency): every call gets the semantic backend exactly
\* under the semantic strategy, a missing threshold exactly under exact match,
\* and under the semantic strategy a threshold within the slider's range.
C10_StrategyConsistency ==
    InCall =>
        /\ (args.cache = "semantic") <=> (args.cache_strategy = SEMANTIC)
        /\ (args.cache = "exact") <=> (args.cache_strategy = EXACT)
        /\ (args.distance_threshold = None) <=> (args.cache_strategy = EXACT)
        /\ args.cache_strategy = SEMANTIC =>
              args.distance_threshold[1] \in SliderMin..SliderMax

C10_Witness ==
    /\ pc = "lookup"
    /\ args.cache_strategy = SEMANTIC
    /\ args.cache = "semantic"
    /\ args.distance_threshold = Some(SliderMax)

====
